---------------------------- MODULE Spec2Model ----------------------------
(***************************************************************************)
(* openapi-ts-enumgen: extraction of string enums from a parsed OpenAPI    *)
(* document (cmd/openapi-ts-enumgen/main.go).                              *)
(*                                                                         *)
(* A Go string is modelled as the sequence of its code points (for valid   *)
(* UTF-8 the byte order of two strings is the order of their code point    *)
(* sequences).  A *yaml.Node is a record with the fields of yaml.Node the  *)
(* program reads (Kind, Value, LineComment, Content) and its Tag; the nil  *)
(* pointer is Nil.  A mapping node keeps its keys and values alternating   *)
(* in Content, as yaml.v3 does.                                            *)
(***************************************************************************)
EXTENDS Integers, Sequences, FiniteSets, TLC

(***************************************************************************)
(* Strings                                                                 *)
(***************************************************************************)

\* Code points of the characters used to write string literals below.
Ord ==
    "a" :> 97 @@ "b" :> 98 @@ "c" :> 99 @@ "d" :> 100 @@ "e" :> 101 @@ "f" :> 102 @@
    "g" :> 103 @@ "h" :> 104 @@ "i" :> 105 @@ "j" :> 106 @@ "k" :> 107 @@ "l" :> 108 @@
    "m" :> 109 @@ "n" :> 110 @@ "o" :> 111 @@ "p" :> 112 @@ "q" :> 113 @@ "r" :> 114 @@
    "s" :> 115 @@ "t" :> 116 @@ "u" :> 117 @@ "v" :> 118 @@ "w" :> 119 @@ "x" :> 120 @@
    "y" :> 121 @@ "z" :> 122 @@ "A" :> 65 @@ "B" :> 66 @@ "C" :> 67 @@ "D" :> 68 @@
    "E" :> 69 @@ "F" :> 70 @@ "G" :> 71 @@ "H" :> 72 @@ "I" :> 73 @@ "J" :> 74 @@
    "K" :> 75 @@ "L" :> 76 @@ "M" :> 77 @@ "N" :> 78 @@ "O" :> 79 @@ "P" :> 80 @@
    "Q" :> 81 @@ "R" :> 82 @@ "S" :> 83 @@ "T" :> 84 @@ "U" :> 85 @@ "V" :> 86 @@
    "W" :> 87 @@ "X" :> 88 @@ "Y" :> 89 @@ "Z" :> 90 @@ "0" :> 48 @@ "1" :> 49 @@
    "2" :> 50 @@ "3" :> 51 @@ "4" :> 52 @@ "5" :> 53 @@ "6" :> 54 @@ "7" :> 55 @@
    "8" :> 56 @@ "9" :> 57 @@ "_" :> 95 @@ "-" :> 45 @@ " " :> 32 @@ "#" :> 35 @@
    "." :> 46 @@ "/" :> 47 @@ "(" :> 40 @@ ")" :> 41 @@ "TAB" :> 9 @@ "NEL" :> 133 @@
    "NBSP" :> 160 @@ "e-acute" :> 233 @@ "IDSP" :> 12288

\* The sequence f as a tuple of its Len(f) elements.
Tuple(f) == SubSeq(f, 1, Len(f))

\* The string whose characters are named by cs.
Str(cs) == Tuple([k \in 1..Len(cs) |-> Ord[cs[k]]])

EmptyStr == <<>>

\* s < t for Go strings.
StrLess(s, t) ==
    \E k \in 1..Len(t) :
        /\ \A m \in 1..(k - 1) : m <= Len(s) /\ s[m] = t[m]
        /\ (k > Len(s) \/ s[k] < t[k])

\* unicode.IsSpace
IsSpace(c) ==
    \/ c \in {9, 10, 11, 12, 13, 32, 133, 160}
    \/ c \in {5760, 8232, 8233, 8239, 8287, 12288}
    \/ (c >= 8192 /\ c <= 8202)

RECURSIVE TrimLeftSpace(_)
TrimLeftSpace(s) ==
    IF s # <<>> /\ IsSpace(Head(s)) THEN TrimLeftSpace(Tail(s)) ELSE s

RECURSIVE TrimRightSpace(_)
TrimRightSpace(s) ==
    IF s # <<>> /\ IsSpace(s[Len(s)])
    THEN TrimRightSpace(SubSeq(s, 1, Len(s) - 1))
    ELSE s

\* strings.TrimSpace
TrimSpace(s) == TrimRightSpace(TrimLeftSpace(s))

\* strings.TrimPrefix
TrimPrefix(s, prefix) ==
    IF Len(s) >= Len(prefix) /\ SubSeq(s, 1, Len(prefix)) = prefix
    THEN SubSeq(s, Len(prefix) + 1, Len(s))
    ELSE s

IsDigit(c) == c >= 48 /\ c <= 57
IsUpper(c) == c >= 65 /\ c <= 90
IsLower(c) == c >= 97 /\ c <= 122

\* The character class [A-Za-z0-9] of the regular expression.
IsWordChar(c) == IsUpper(c) \/ IsLower(c) \/ IsDigit(c)

\* re.FindAllString(value, -1) for `[A-Za-z0-9]+`: the maximal runs, left to
\* right.  cur is the run being read, acc the runs already closed.
RECURSIVE FindAll(_, _, _)
FindAll(s, cur, acc) ==
    IF s = <<>>
    THEN IF cur = <<>> THEN acc ELSE Append(acc, cur)
    ELSE IF IsWordChar(Head(s))
         THEN FindAll(Tail(s), Append(cur, Head(s)), acc)
         ELSE FindAll(Tail(s), <<>>, IF cur = <<>> THEN acc ELSE Append(acc, cur))

FindAllString(s) == FindAll(s, <<>>, <<>>)

\* strings.ToLower and strings.ToUpper on the characters the tokens hold.
LowerChar(c) == IF IsUpper(c) THEN c + 32 ELSE c
UpperChar(c) == IF IsLower(c) THEN c - 32 ELSE c
ToLower(s) == Tuple([k \in 1..Len(s) |-> LowerChar(s[k])])

upperFirst(s) ==
    IF s = <<>> THEN s ELSE <<UpperChar(Head(s))>> \o Tail(s)

\* strings.Join(parts, "")
RECURSIVE Join(_)
Join(parts) == IF parts = <<>> THEN <<>> ELSE Head(parts) \o Join(Tail(parts))

\* The %d verb of fmt.Sprintf for n >= 0.
RECURSIVE Itoa(_)
Itoa(n) == IF n < 10 THEN <<48 + n>> ELSE Itoa(n \div 10) \o <<48 + (n % 10)>>

(***************************************************************************)
(* Naming                                                                  *)
(***************************************************************************)

ReservedWords ==
    {Str(<<"D", "e", "f", "a", "u", "l", "t">>),
     Str(<<"C", "l", "a", "s", "s">>),
     Str(<<"F", "u", "n", "c", "t", "i", "o", "n">>),
     Str(<<"V", "a", "r">>),
     Str(<<"L", "e", "t">>),
     Str(<<"C", "o", "n", "s", "t">>),
     Str(<<"E", "n", "u", "m">>),
     Str(<<"E", "x", "p", "o", "r", "t">>),
     Str(<<"I", "m", "p", "o", "r", "t">>),
     Str(<<"T", "y", "p", "e">>),
     Str(<<"I", "n", "t", "e", "r", "f", "a", "c", "e">>),
     Str(<<"E", "x", "t", "e", "n", "d", "s">>),
     Str(<<"I", "m", "p", "l", "e", "m", "e", "n", "t", "s">>),
     Str(<<"P", "u", "b", "l", "i", "c">>),
     Str(<<"P", "r", "i", "v", "a", "t", "e">>),
     Str(<<"P", "r", "o", "t", "e", "c", "t", "e", "d">>),
     Str(<<"N", "e", "w">>),
     Str(<<"D", "e", "l", "e", "t", "e">>),
     Str(<<"R", "e", "t", "u", "r", "n">>),
     Str(<<"S", "w", "i", "t", "c", "h">>),
     Str(<<"C", "a", "s", "e">>),
     Str(<<"F", "o", "r">>),
     Str(<<"W", "h", "i", "l", "e">>),
     Str(<<"I", "f">>),
     Str(<<"E", "l", "s", "e">>),
     Str(<<"T", "r", "y">>),
     Str(<<"C", "a", "t", "c", "h">>),
     Str(<<"F", "i", "n", "a", "l", "l", "y">>),
     Str(<<"T", "h", "r", "o", "w">>),
     Str(<<"I", "n">>),
     Str(<<"O", "f">>),
     Str(<<"T", "h", "i", "s">>),
     Str(<<"S", "u", "p", "e", "r">>),
     Str(<<"N", "u", "l", "l">>),
     Str(<<"T", "r", "u", "e">>),
     Str(<<"F", "a", "l", "s", "e">>),
     Str(<<"V", "o", "i", "d">>),
     Str(<<"A", "n", "y">>),
     Str(<<"N", "e", "v", "e", "r">>),
     Str(<<"U", "n", "k", "n", "o", "w", "n">>)}

isReservedTSIdent(s) == s \in ReservedWords

FallbackKey == Str(<<"V", "a", "l", "u", "e">>)

\* The key before the digit and reserved-word guards: every token lower-cased,
\* its first character upper-cased, the tokens joined.
PascalCase(parts) == Join(Tuple([k \in 1..Len(parts) |-> upperFirst(ToLower(parts[k]))]))

\* DigitGuard without the test: the key is left as it is.
DigitGuardNone(key) == key

\* "_" + key when key starts with a digit.
DigitGuard(key) ==
    IF key # <<>> /\ IsDigit(key[1]) THEN Str(<<"_">>) \o key ELSE key

\* ReservedGuard without the test: the key is left as it is.
ReservedGuardNone(key) == key

\* key + "_" when key is reserved.
ReservedGuard(key) ==
    IF isReservedTSIdent(key) THEN key \o Str(<<"_">>) ELSE key

toTSMemberKey(value) ==
    LET trimmed == TrimSpace(value)
        parts   == FindAllString(trimmed)
    IN  IF trimmed = <<>> THEN FallbackKey
        ELSE IF Len(parts) = 0 THEN FallbackKey
        ELSE ReservedGuard(DigitGuard(PascalCase(parts)))

\* fmt.Sprintf("%s_%d", key, c)
SuffixedKey(key, c) == key \o Str(<<"_">>) \o Itoa(c)

(***************************************************************************)
(* yaml.Node                                                               *)
(***************************************************************************)

Node(kind, value, tag, comment, content) ==
    [Kind |-> kind, Value |-> value, Tag |-> tag, LineComment |-> comment,
     Content |-> content]

\* The nil *yaml.Node.
Nil == Node("nil", <<>>, "", <<>>, <<>>)

DocumentNode == "Document"
SequenceNode == "Sequence"
MappingNode  == "Mapping"
ScalarNode   == "Scalar"
AliasNode    == "Alias"

\* mapGet without the test of the node's kind.
mapGetAnyKind(m, key) ==
    IF m = Nil THEN Nil
    ELSE LET hits == {k \in 0..(Len(m.Content) - 1) :
                        /\ k % 2 = 0
                        /\ k + 1 < Len(m.Content)
                        /\ m.Content[k + 1] # Nil
                        /\ m.Content[k + 1].Value = key}
         IN  IF hits = {} THEN Nil
             ELSE m.Content[(CHOOSE k \in hits : \A h \in hits : k <= h) + 2]

mapGet(m, key) ==
    IF m = Nil \/ m.Kind # MappingNode THEN Nil
    ELSE LET hits == {k \in 0..(Len(m.Content) - 1) :
                        /\ k % 2 = 0
                        /\ k + 1 < Len(m.Content)
                        /\ m.Content[k + 1] # Nil
                        /\ m.Content[k + 1].Value = key}
         IN  IF hits = {} THEN Nil
             ELSE m.Content[(CHOOSE k \in hits : \A h \in hits : k <= h) + 2]

scalarValue(n) == IF n = Nil \/ n.Kind # ScalarNode THEN EmptyStr ELSE n.Value

(***************************************************************************)
(* The program: main calls extractEnums on the loaded document, orders the *)
(* list and fills in See.                                                  *)
(***************************************************************************)

VARIABLES
    root,         \* the node loadYAML returned
    noSort,       \* the -no-sort flag
    pc,           \* where the run is
    schemasNode,  \* extractEnums: the components/schemas node
    i,            \* extractEnums: index of the definition's name in schemasNode.Content
    ni,           \* extractEnums: number of entries of the enum sequence already read
    usedKeys,     \* extractEnums: base key -> number of the last suffix given out
    items,        \* extractEnums: members of the definition being read
    result,       \* extractEnums: the list assembled so far
    schemas       \* main: the list handed to the template

vars == <<root, noSort, pc, schemasNode, i, ni, usedKeys, items, result, schemas>>

\* An empty map[string]int.
EmptyMap == [k \in {} |-> 0]

\* Names of the document fields the program looks up.
KeyComponents  == Str(<<"c", "o", "m", "p", "o", "n", "e", "n", "t", "s">>)
KeySchemas     == Str(<<"s", "c", "h", "e", "m", "a", "s">>)
KeyType        == Str(<<"t", "y", "p", "e">>)
KeyEnum        == Str(<<"e", "n", "u", "m">>)
KeyDescription == Str(<<"d", "e", "s", "c", "r", "i", "p", "t", "i", "o", "n">>)
KeyDeprecated  == Str(<<"d", "e", "p", "r", "e", "c", "a", "t", "e", "d">>)
KeySince       == Str(<<"x", "-", "s", "i", "n", "c", "e">>)
TypeString     == Str(<<"s", "t", "r", "i", "n", "g">>)
ValueTrue      == Str(<<"t", "r", "u", "e">>)

\* The node extractEnums starts from: the document's first child, or root itself.
DocOf(r) ==
    IF r.Kind = DocumentNode /\ Len(r.Content) > 0 THEN r.Content[1] ELSE r

\* mapGet(mapGet(doc, "components"), "schemas")
FindSchemas(r) == mapGet(mapGet(DocOf(r), KeyComponents), KeySchemas)

\* The nodes of the definition the outer loop is at.
nameNode   == schemasNode.Content[i + 1]
schemaNode == schemasNode.Content[i + 2]
enumNode   == mapGet(schemaNode, KeyEnum)

\* NotStringEnum without the test of the type.
NotStringEnumAnyType(sn) ==
    LET en == mapGet(sn, KeyEnum)
    IN  en = Nil \/ en.Kind # SequenceNode \/ Len(en.Content) = 0

\* The "string enum only" test: TRUE when the definition is passed over.
NotStringEnum(sn) ==
    LET typ == scalarValue(mapGet(sn, KeyType))
        en  == mapGet(sn, KeyEnum)
    IN  typ # TypeString \/ en = Nil \/ en.Kind # SequenceNode \/ Len(en.Content) = 0

\* strings.TrimLeft(s, "#")
RECURSIVE TrimLeftMarkers(_)
TrimLeftMarkers(s) ==
    IF s # <<>> /\ Head(s) = Ord["#"] THEN TrimLeftMarkers(Tail(s)) ELSE s

\* LabelOf with every leading "#" cut, not only one.
LabelOfAllMarkers(n) ==
    LET label == TrimSpace(TrimLeftMarkers(TrimSpace(n.LineComment)))
    IN  IF label = <<>> THEN n.Value ELSE label

\* The label of a scalar entry.
LabelOf(n) ==
    LET label == TrimSpace(TrimPrefix(TrimSpace(n.LineComment), Str(<<"#">>)))
    IN  IF label = <<>> THEN n.Value ELSE label

\* The deprecated flag of a definition.
DeprecatedOf(sn) ==
    LET dep == mapGet(sn, KeyDeprecated)
    IN  dep # Nil /\ dep.Kind = ScalarNode /\ dep.Value = ValueTrue

\* usedKeys[key] = c
MapPut(m, key, c) == [k \in DOMAIN m \cup {key} |-> IF k = key THEN c ELSE m[k]]

\* MemberKey with the counter read before it is incremented.
MemberKeyFromZero(key, used) ==
    IF key \in DOMAIN used THEN SuffixedKey(key, used[key]) ELSE key

\* The key an entry gets, given the keys used so far.
MemberKey(key, used) ==
    IF key \in DOMAIN used THEN SuffixedKey(key, used[key] + 1) ELSE key

\* UsedAfter with the incremented counter not stored.
UsedAfterStale(key, used) ==
    IF key \in DOMAIN used THEN used ELSE MapPut(used, key, 0)

\* usedKeys after an entry of base key key.
UsedAfter(key, used) ==
    IF key \in DOMAIN used THEN MapPut(used, key, used[key] + 1) ELSE MapPut(used, key, 0)

\* extractEnums up to the test of the schemas node.
Walk ==
    /\ pc = "extract"
    /\ LET s == FindSchemas(root)
       IN  IF s = Nil \/ s.Kind # MappingNode
           THEN /\ pc' = "sort"
                /\ UNCHANGED schemasNode
           ELSE /\ pc' = "schemaLoop"
                /\ schemasNode' = s
    /\ i' = 0
    /\ result' = <<>>
    /\ UNCHANGED <<root, noSort, ni, usedKeys, items, schemas>>

\* One pass of the outer loop up to the member loop, or the return.
Definition ==
    /\ pc = "schemaLoop"
    /\ IF ~(i + 1 < Len(schemasNode.Content))
       THEN /\ pc' = "sort"
            /\ UNCHANGED i
       ELSE IF \/ nameNode = Nil \/ schemaNode = Nil
               \/ schemaNode.Kind # MappingNode
               \/ nameNode.Value = EmptyStr
               \/ NotStringEnum(schemaNode)
            THEN /\ i' = i + 2
                 /\ UNCHANGED pc
            ELSE /\ pc' = "memberLoop"
                 /\ UNCHANGED i
    /\ ni' = 0
    /\ usedKeys' = EmptyMap
    /\ items' = <<>>
    /\ UNCHANGED <<root, noSort, schemasNode, result, schemas>>

\* Member with an entry passed over when its raw value is already a member.
MemberSkipRepeated ==
    /\ pc = "memberLoop"
    /\ ni < Len(enumNode.Content)
    /\ LET n == enumNode.Content[ni + 1]
       IN  IF \/ n = Nil \/ n.Kind # ScalarNode
              \/ \E m \in 1..Len(items) : items[m].Value = n.Value
           THEN UNCHANGED <<usedKeys, items>>
           ELSE LET val   == n.Value
                    label == LabelOf(n)
                    key   == toTSMemberKey(val)
                IN  /\ usedKeys' = UsedAfter(key, usedKeys)
                    /\ items' = Append(items,
                                       [Value |-> val,
                                        Key   |-> MemberKey(key, usedKeys),
                                        Label |-> label])
    /\ ni' = ni + 1
    /\ UNCHANGED <<root, noSort, pc, schemasNode, i, result, schemas>>

\* One pass of the member loop.
Member ==
    /\ pc = "memberLoop"
    /\ ni < Len(enumNode.Content)
    /\ LET n == enumNode.Content[ni + 1]
       IN  IF n = Nil \/ n.Kind # ScalarNode
           THEN UNCHANGED <<usedKeys, items>>
           ELSE LET val   == n.Value
                    label == LabelOf(n)
                    key   == toTSMemberKey(val)
                IN  /\ usedKeys' = UsedAfter(key, usedKeys)
                    /\ items' = Append(items,
                                       [Value |-> val,
                                        Key   |-> MemberKey(key, usedKeys),
                                        Label |-> label])
    /\ ni' = ni + 1
    /\ UNCHANGED <<root, noSort, pc, schemasNode, i, result, schemas>>

\* The rest of the outer loop's pass, after the member loop.
Assemble ==
    /\ pc = "memberLoop"
    /\ ni = Len(enumNode.Content)
    /\ IF Len(items) = 0
       THEN UNCHANGED result
       ELSE result' = Append(result,
                             [Name        |-> nameNode.Value,
                              Description |-> scalarValue(mapGet(schemaNode, KeyDescription)),
                              Deprecated  |-> DeprecatedOf(schemaNode),
                              Since       |-> scalarValue(mapGet(schemaNode, KeySince)),
                              See         |-> EmptyStr,
                              Items       |-> items])
    /\ i' = i + 2
    /\ pc' = "schemaLoop"
    /\ ni' = 0
    /\ usedKeys' = EmptyMap
    /\ items' = <<>>
    /\ UNCHANGED <<root, noSort, schemasNode, schemas>>

\* The orders sort.Slice may leave a list in: it is not stable, so schemas of
\* one name may come out in any order.
IsPermutation(p, n) == \A k \in 1..n : \E m \in 1..n : p[m] = k

\* SortedByName with the comparison turned round.
SortedByNameDescending(list) ==
    {out \in {[k \in 1..Len(list) |-> list[p[k]]] :
                 p \in {q \in [1..Len(list) -> 1..Len(list)] : IsPermutation(q, Len(list))}} :
        \A k \in 1..(Len(out) - 1) : ~StrLess(out[k].Name, out[k + 1].Name)}

SortedByName(list) ==
    {out \in {[k \in 1..Len(list) |-> list[p[k]]] :
                 p \in {q \in [1..Len(list) -> 1..Len(list)] : IsPermutation(q, Len(list))}} :
        \A k \in 1..(Len(out) - 1) : ~StrLess(out[k + 1].Name, out[k].Name)}

\* main: schemas := extractEnums(root), sorted unless -no-sort.
Sort ==
    /\ pc = "sort"
    /\ IF ~noSort
       THEN schemas' \in SortedByName(result)
       ELSE schemas' = result
    /\ pc' = "see"
    /\ UNCHANGED <<root, noSort, schemasNode, i, ni, usedKeys, items, result>>

\* filepath.Base(inPath)
sourceBase == Str(<<"o", "p", "e", "n", "a", "p", "i", ".", "y", "a", "m", "l">>)

SeeOf(name) ==
    Str(<<"O", "p", "e", "n", "A", "P", "I", " ", "c", "o", "m", "p", "o", "n", "e",
          "n", "t", "s", "/", "s", "c", "h", "e", "m", "a", "s", "/">>)
    \o name \o Str(<<" ", "(">>) \o sourceBase \o Str(<<")">>)

\* main: the loop that fills in See; the list then goes to the template.
Annotate ==
    /\ pc = "see"
    /\ schemas' = [k \in 1..Len(schemas) |->
                     [schemas[k] EXCEPT !.See = SeeOf(schemas[k].Name)]]
    /\ pc' = "done"
    /\ UNCHANGED <<root, noSort, schemasNode, i, ni, usedKeys, items, result>>

Next == Walk \/ Definition \/ Member \/ Assemble \/ Sort \/ Annotate

(***************************************************************************)
(* The documents the run starts from                                       *)
(***************************************************************************)

\* Bounds of the documents.
MaxLen     == 2   \* length of the enum values drawn from Alphabet
MaxEnum    == 4   \* entries of an enum sequence drawn from EdgeValues
MaxComment == 3   \* length of a line comment drawn from CommentAlphabet
MaxDefs    == 2   \* definitions under components/schemas drawn from NamedDefs

StrsUpTo(chars, n) == UNION {[1..m -> chars] : m \in 0..n}
SeqsUpTo(set, n)   == UNION {[1..m -> set] : m \in 0..n}

Scalar(v)          == Node(ScalarNode, v, "!!str", <<>>, <<>>)
Commented(v, c)    == Node(ScalarNode, v, "!!str", c, <<>>)
Tagged(v, tag)     == Node(ScalarNode, v, tag, <<>>, <<>>)
Sequence(content)  == Node(SequenceNode, <<>>, "!!seq", <<>>, content)
Alias(name)        == Node(AliasNode, name, "", <<>>, <<>>)
Document(content)  == Node(DocumentNode, <<>>, "", <<>>, content)
\* A mapping node from its <<key, value node>> pairs.
Mapping(pairs) ==
    Node(MappingNode, <<>>, "!!map", <<>>,
         [k \in 1..(2 * Len(pairs)) |->
            IF k % 2 = 1 THEN Scalar(pairs[(k + 1) \div 2][1]) ELSE pairs[k \div 2][2]])

\* A document whose components/schemas holds the definitions defs, a sequence
\* of <<name, definition node>> pairs.
DocWith(defs) ==
    Document(<<Mapping(<<
        <<Str(<<"i", "n", "f", "o">>), Mapping(<<>>)>>,
        <<KeyComponents, Mapping(<< <<KeySchemas, Mapping(defs)>> >>)>> >>)>>)

\* A definition of type string with the enum entries given.
StringEnum(entries) ==
    Mapping(<< <<KeyType, Scalar(TypeString)>>, <<KeyEnum, Sequence(entries)>> >>)

NameA == Str(<<"A">>)
NameB == Str(<<"B">>)

\* Every enum value over a small alphabet: two letters that make the reserved
\* word "In" once normalized, a digit and two separators; and three longer
\* values: white space and a letter outside ASCII, and two that spell a suffix.
Alphabet == {Ord["i"], Ord["N"], Ord["1"], Ord["_"], Ord[" "]}
ShortValues ==
    StrsUpTo(Alphabet, MaxLen)
    \cup {Str(<<"NBSP", "e-acute", "TAB">>), Str(<<"i", "N", "_", "1">>),
          Str(<<"_", "1", "_", "1">>)}

\* Values that meet on a few base keys: a reserved word in two cases, a digit,
\* and two that end on the fallback key.
EdgeValues ==
    {Str(<<"c", "l", "a", "s", "s">>), Str(<<"C", "L", "A", "S", "S">>),
     Str(<<"1">>), Str(<<"-", "-", "-">>), Str(<<"v", "a", "l", "u", "e">>)}

\* The enum value sequences of the documents about keys: one or two values of
\* ShortValues, or up to MaxEnum values of EdgeValues.
KeySeqs ==
    [1..1 -> ShortValues] \cup [1..2 -> ShortValues] \cup SeqsUpTo(EdgeValues, MaxEnum)

KeyDoc(vs) == DocWith(<< <<NameA, StringEnum([k \in 1..Len(vs) |-> Scalar(vs[k])])>> >>)

\* Entries with every line comment over "#", a blank and a letter.
CommentAlphabet == {Ord["#"], Ord[" "], Ord["x"]}
Comments == StrsUpTo(CommentAlphabet, MaxComment)
LabelValues == {Str(<<" ", "a">>), Str(<<"A">>)}
LabelEntries == {Commented(v, c) : v \in LabelValues, c \in Comments}

\* One commented entry, alone or after an entry of the same base key.
LabelSeqs ==
    {<<e>> : e \in LabelEntries}
    \cup {<<Commented(Str(<<"a">>), Str(<<"#", " ", "x">>)), e>> : e \in LabelEntries}

LabelDoc(es) == DocWith(<< <<NameA, StringEnum(es)>> >>)

\* Definitions that differ in the fields extractEnums tests.
TwoValues == <<Scalar(Str(<<"b">>)), Scalar(Str(<<"a">>))>>
TypeOnly(t) == <<KeyType, Scalar(t)>>
EnumOf(node) == <<KeyEnum, node>>
Deprecated(node) ==
    Mapping(<<TypeOnly(TypeString), EnumOf(Sequence(TwoValues)), <<KeyDeprecated, node>> >>)

StructDefs ==
    {StringEnum(TwoValues),
     Mapping(<<TypeOnly(Str(<<"i", "n", "t", "e", "g", "e", "r">>)), EnumOf(Sequence(TwoValues))>>),
     Mapping(<<EnumOf(Sequence(TwoValues))>>),
     Mapping(<< <<KeyType, Sequence(<<Scalar(TypeString)>>)>>, EnumOf(Sequence(TwoValues))>>),
     Mapping(<<TypeOnly(Str(<<"i", "n", "t", "e", "g", "e", "r">>)), TypeOnly(TypeString),
               EnumOf(Sequence(TwoValues))>>),
     Mapping(<<TypeOnly(TypeString)>>),
     StringEnum(<<>>),
     Mapping(<<TypeOnly(TypeString), EnumOf(Alias(Str(<<"a">>)))>>),
     StringEnum(<<Mapping(<<>>), Sequence(TwoValues), Alias(Str(<<"a">>))>>),
     StringEnum(<<Scalar(Str(<<"b">>)), Mapping(<<>>), Scalar(Str(<<"b">>)),
                  Alias(Str(<<"a">>)), Scalar(Str(<<"a">>))>>),
     Scalar(TypeString),
     Mapping(<<TypeOnly(TypeString), EnumOf(Sequence(TwoValues)),
               <<KeyDescription, Scalar(Str(<<"d">>))>>, <<KeySince, Scalar(Str(<<"1">>))>> >>),
     Deprecated(Tagged(ValueTrue, "!!bool")),
     Deprecated(Tagged(ValueTrue, "!!str")),
     Deprecated(Tagged(Str(<<"T", "r", "u", "e">>), "!!bool")),
     Deprecated(Tagged(Str(<<"f", "a", "l", "s", "e">>), "!!bool")),
     Deprecated(Mapping(<< <<ValueTrue, Scalar(ValueTrue)>> >>))}

SortNames == {NameB, NameA, Str(<<"a">>), Str(<<"A", "B">>)}

NamedDefs ==
    {<<NameA, d>> : d \in StructDefs}
    \cup {<<nm, StringEnum(TwoValues)>> : nm \in {NameB, EmptyStr}}

\* Three definitions that qualify, told apart by their one value.
SortDoc(nms) == DocWith([k \in 1..3 |-> <<nms[k], StringEnum(<<Scalar(Itoa(k))>>)>>])

\* Documents without a components/schemas mapping.
WithComponents(node) == Document(<<Mapping(<< <<KeyComponents, node>> >>)>>)
WithSchemas(node)    == WithComponents(Mapping(<< <<KeySchemas, node>> >>))
SomeDefs == Mapping(<< <<NameA, StringEnum(TwoValues)>> >>)

RootDocs ==
    {Document(<<Mapping(<<>>)>>),
     Document(<<Scalar(EmptyStr)>>),
     Document(<<Sequence(<<SomeDefs>>)>>),
     Document(<<Mapping(<< <<KeySchemas, SomeDefs>> >>)>>),
     WithComponents(Scalar(KeySchemas)),
     WithComponents(Sequence(<<Scalar(KeySchemas), SomeDefs>>)),
     WithComponents(Alias(Str(<<"a">>))),
     WithComponents(Mapping(<<>>)),
     WithComponents(Mapping(<< <<NameA, SomeDefs>> >>)),
     WithSchemas(Scalar(EmptyStr)),
     WithSchemas(Sequence(<<Scalar(NameA), StringEnum(TwoValues)>>)),
     WithSchemas(Alias(Str(<<"a">>))),
     Document(<<Mapping(<< <<KeyComponents, Scalar(EmptyStr)>>,
                           <<KeyComponents, Mapping(<< <<KeySchemas, SomeDefs>> >>)>> >>)>>)}

\* The loaded document and the flag.  The documents about keys and labels hold
\* one definition, which the flag cannot reorder: they run with its default.
Load ==
    \/ /\ \E vs \in KeySeqs : root = KeyDoc(vs)
       /\ noSort = FALSE
    \/ /\ \E es \in LabelSeqs : root = LabelDoc(es)
       /\ noSort = FALSE
    \/ /\ \E defs \in SeqsUpTo(NamedDefs, MaxDefs) : root = DocWith(defs)
       /\ noSort \in BOOLEAN
    \/ /\ \E nms \in [1..3 -> SortNames] : root = SortDoc(nms)
       /\ noSort \in BOOLEAN
    \/ /\ root \in RootDocs
       /\ noSort \in BOOLEAN

Init ==
    /\ Load
    /\ pc = "extract"
    /\ schemasNode = Nil
    /\ i = 0
    /\ ni = 0
    /\ usedKeys = EmptyMap
    /\ items = <<>>
    /\ result = <<>>
    /\ schemas = <<>>

Spec == Init /\ [][Next]_vars

(***************************************************************************)
(* Properties                                                              *)
(***************************************************************************)

Finished == pc \in {"sort", "see", "done"}

\* Every member list of the run: the one being built, each time the member
\* loop has added to it, and at the end those of the assembled list and of the
\* list handed to the template.
ItemLists ==
    IF pc = "memberLoop" THEN {items}
    ELSE IF pc = "done"
         THEN {result[k].Items : k \in 1..Len(result)}
                \cup {schemas[k].Items : k \in 1..Len(schemas)}
         ELSE {}

\* The member lists of the list handed to the template.
FinalItemLists == {schemas[k].Items : k \in 1..Len(schemas)}

BaseKey(member) == toTSMemberKey(member.Value)

\* The candidate key of a raw value: the tokens in PascalCase, before the guards.
Candidate(value) == PascalCase(FindAllString(TrimSpace(value)))

IsPrefix(p, s) == Len(p) <= Len(s) /\ SubSeq(s, 1, Len(p)) = p

\* C1: the keys of the members of one enum are pairwise distinct, whatever the
\* raw values are (values that differ by case or punctuation only, empty and
\* punctuation-only values, reserved words, digit-leading values, values that
\* spell a suffixed key).
C1_KeysPairwiseDistinct ==
    \A its \in ItemLists :
        \A a, b \in 1..Len(its) : a # b => its[a].Key # its[b].Key

\* A finished enum in which two values met on one base key next to a value of
\* another base key.
C1_Witness ==
    /\ pc = "done"
    /\ \E its \in FinalItemLists :
          \E a, b, c \in 1..Len(its) :
              /\ a < b
              /\ BaseKey(its[a]) = BaseKey(its[b])
              /\ BaseKey(its[c]) # BaseKey(its[a])

\* C2: among the members of one enum whose values normalize to one base key B,
\* the first in declaration order has key B and the i-th (i >= 2) has key B, "_"
\* and the decimal number i-1, whatever lies between them or follows.
C2_FirstOccurrenceStable ==
    \A its \in ItemLists :
        LET base == Tuple([m \in 1..Len(its) |-> BaseKey(its[m])])
        IN  \A m \in 1..Len(its) :
                LET earlier == {e \in 1..(m - 1) : base[e] = base[m]}
                IN  its[m].Key =
                      IF earlier = {} THEN base[m]
                      ELSE base[m] \o Str(<<"_">>) \o Itoa(Cardinality(earlier))

\* A finished enum with three values of one base key and a value of another
\* base key between the first and the second.
C2_Witness ==
    /\ pc = "done"
    /\ \E its \in FinalItemLists :
          \E a, b, c, d \in 1..Len(its) :
              /\ a < b /\ b < c /\ c < d
              /\ BaseKey(its[a]) = BaseKey(its[c])
              /\ BaseKey(its[a]) = BaseKey(its[d])
              /\ BaseKey(its[b]) # BaseKey(its[a])

\* A value without an ASCII letter or digit (empty and blank values included).
NoWordChar(value) == \A k \in 1..Len(value) : ~IsWordChar(value[k])

\* C6: every member key is non-empty and does not start with a digit; a value
\* whose candidate starts with a digit has the key "_" followed by the candidate
\* (and then the collision suffix, if any); a value without an ASCII letter or
\* digit has the base key "Value".
C6_KeyNeverStartsWithDigit ==
    \A its \in ItemLists :
        \A m \in 1..Len(its) :
            LET value == its[m].Value
                key   == its[m].Key
                cand  == Candidate(value)
                base  == BaseKey(its[m])
            IN  /\ key # <<>>
                /\ ~IsDigit(key[1])
                /\ (cand # <<>> /\ IsDigit(cand[1]))
                     => /\ base = Str(<<"_">>) \o cand
                        /\ IsPrefix(base, key)
                /\ NoWordChar(value)
                     => /\ base = Str(<<"V", "a", "l", "u", "e">>)
                        /\ IsPrefix(base, key)

\* A finished enum with a digit-leading value that met an earlier value on its
\* key, and a value without letters or digits.
C6_Witness ==
    /\ pc = "done"
    /\ \E its \in FinalItemLists :
          \E a, b \in 1..Len(its) :
              /\ Candidate(its[a].Value) # <<>>
              /\ IsDigit(Candidate(its[a].Value)[1])
              /\ its[a].Key # BaseKey(its[a])
              /\ NoWordChar(its[b].Value)

\* C7: a value whose candidate is a reserved word has the base key candidate
\* plus one "_", and no member key, suffixed or not, is a reserved word.
C7_ReservedWordGuard ==
    \A its \in ItemLists :
        \A m \in 1..Len(its) :
            LET cand == Candidate(its[m].Value)
            IN  /\ cand \in ReservedWords => BaseKey(its[m]) = cand \o Str(<<"_">>)
                /\ its[m].Key \notin ReservedWords

\* A finished enum with two values of one reserved candidate: the first keeps
\* the guarded key, the second has it suffixed.
C7_Witness ==
    /\ pc = "done"
    /\ \E its \in FinalItemLists :
          \E a, b \in 1..Len(its) :
              /\ a < b
              /\ Candidate(its[a].Value) \in ReservedWords
              /\ Candidate(its[b].Value) = Candidate(its[a].Value)
              /\ its[a].Key = BaseKey(its[a])
              /\ its[b].Key # BaseKey(its[b])

(***************************************************************************)
(* The document as the properties read it, without the program's helpers.  *)
(***************************************************************************)

MinOf(S) == CHOOSE x \in S : \A y \in S : x <= y
MaxOf(S) == CHOOSE x \in S : \A y \in S : x >= y

\* The value of the first entry of mapping m whose key is key, Nil if none.
Field(m, key) ==
    IF m.Kind # MappingNode THEN Nil
    ELSE LET at == {k \in 1..(Len(m.Content) \div 2) : m.Content[2 * k - 1].Value = key}
         IN  IF at = {} THEN Nil ELSE m.Content[2 * MinOf(at)]

TopOf(r) == IF r.Kind = DocumentNode /\ r.Content # <<>> THEN r.Content[1] ELSE r

ComponentsOf(r) == Field(TopOf(r), KeyComponents)
SchemasOf(r)    == Field(ComponentsOf(r), KeySchemas)
HasSchemas(r)   == SchemasOf(r).Kind = MappingNode

\* The named definitions under components/schemas, in declaration order.
Definitions(r) ==
    LET content == SchemasOf(r).Content
    IN  IF ~HasSchemas(r) THEN <<>>
        ELSE Tuple([k \in 1..(Len(content) \div 2) |->
                      [name |-> content[2 * k - 1].Value, node |-> content[2 * k]]])

IsScalar(n) == n.Kind = ScalarNode

\* The scalar entries of a definition's enum sequence, in declaration order.
ScalarEntries(d) == SelectSeq(Field(d.node, KeyEnum).Content, IsScalar)

\* A definition that is a mapping of type "string" whose enum is a sequence
\* with an entry, one of them a scalar, under a non-empty name.
Qualifies(d) ==
    /\ d.name # <<>>
    /\ d.node.Kind = MappingNode
    /\ Field(d.node, KeyType).Kind = ScalarNode
    /\ Field(d.node, KeyType).Value = Str(<<"s", "t", "r", "i", "n", "g">>)
    /\ Field(d.node, KeyEnum).Kind = SequenceNode
    /\ Len(Field(d.node, KeyEnum).Content) >= 1
    /\ ScalarEntries(d) # <<>>

Qualifying(r) == SelectSeq(Definitions(r), Qualifies)

NamesOf(list)    == [k \in 1..Len(list) |-> list[k].Name]
ValuesOf(its)    == [k \in 1..Len(its) |-> its[k].Value]
ClearSee(list)   == [k \in 1..Len(list) |-> [list[k] EXCEPT !.See = <<>>]]
Reorderings(n)  == {p \in [1..n -> 1..n] : \A k \in 1..n : \E m \in 1..n : p[m] = k}

\* s <= t in byte order.
RECURSIVE StrLeq(_, _)
StrLeq(s, t) ==
    \/ s = <<>>
    \/ /\ t # <<>>
       /\ \/ Head(s) < Head(t)
          \/ Head(s) = Head(t) /\ StrLeq(Tail(s), Tail(t))

\* C3: with or without -no-sort, every schema of the list handed to the template
\* is the schema of one qualifying definition, each definition taken once, and
\* its member values are the values of the scalar entries of that definition's
\* enum sequence, in declaration order and one member per scalar entry.
C3_MemberOrderIsDeclarationOrder ==
    pc \in {"see", "done"} =>
        LET q == Qualifying(root)
        IN  /\ Len(schemas) = Len(q)
            /\ \E p \in Reorderings(Len(q)) :
                  \A k \in 1..Len(q) :
                      LET entries == ScalarEntries(q[p[k]])
                      IN  /\ schemas[k].Name = q[p[k]].name
                          /\ ValuesOf(schemas[k].Items)
                               = [m \in 1..Len(entries) |-> entries[m].Value]

\* A sorted run that moved a schema whose enum sequence has non-scalar entries,
\* a repeated raw value and values out of byte order.
C3_Witness ==
    /\ pc = "done"
    /\ ~noSort
    /\ ClearSee(schemas) # result
    /\ \E k \in 1..Len(schemas) :
          LET its == schemas[k].Items
              d   == Qualifying(root)[MinOf({m \in 1..Len(result) : result[m].Items = its})]
          IN  /\ Len(Field(d.node, KeyEnum).Content) > Len(its)
              /\ \E a, b \in 1..Len(its) : a < b /\ its[a].Value = its[b].Value
              /\ \E a, b \in 1..Len(its) : a < b /\ StrLess(its[b].Value, its[a].Value)

\* C4: after the ordering step, without -no-sort the list is a permutation of the
\* assembled list with names in non-decreasing byte order; with -no-sort it is
\* the assembled list, whose schemas are in the declaration order of their
\* definitions.
C4_OrderingPolicy ==
    pc \in {"see", "done"} =>
        LET final == ClearSee(schemas)
        IN  IF noSort
            THEN /\ final = result
                 /\ pc = "see" => schemas = result
                 /\ LET q == Qualifying(root)
                    IN  NamesOf(final) = [k \in 1..Len(q) |-> q[k].name]
            ELSE /\ \E p \in Reorderings(Len(result)) :
                        final = [k \in 1..Len(result) |-> result[p[k]]]
                 /\ \A k \in 1..(Len(final) - 1) : StrLeq(final[k].Name, final[k + 1].Name)

\* A sorted run of three schemas, two of one name, that changed the order.
C4_Witness ==
    /\ pc = "done"
    /\ ~noSort
    /\ Len(schemas) = 3
    /\ ClearSee(schemas) # result
    /\ \E a, b \in 1..3 : a # b /\ schemas[a].Name = schemas[b].Name

\* C5: the assembled list holds one schema per qualifying definition, in
\* declaration order, and none for any other definition (type integer, another
\* type or none, an enum that is no sequence, is empty or has no scalar entry);
\* every schema has a member.
C5_QualifyingDefinitionsOnly ==
    Finished =>
        LET q == Qualifying(root)
        IN  /\ NamesOf(result) = [k \in 1..Len(q) |-> q[k].name]
            /\ \A k \in 1..Len(result) : Len(result[k].Items) >= 1

\* A finished run over a definition of type integer with a well-formed enum
\* list and a definition that qualifies.
C5_Witness ==
    /\ pc = "done"
    /\ Len(result) = 1
    /\ \E a, b \in 1..Len(Definitions(root)) :
          LET d == Definitions(root)[a]
          IN  /\ d.name # <<>>
              /\ Field(d.node, KeyType).Value = Str(<<"i", "n", "t", "e", "g", "e", "r">>)
              /\ Field(d.node, KeyEnum).Kind = SequenceNode
              /\ ScalarEntries(d) # <<>>
              /\ Qualifies(Definitions(root)[b])

\* A definition that is no mapping, or has no enum, or an empty enum sequence.
StructurallyAbsent(d) ==
    \/ d.node.Kind # MappingNode
    \/ Field(d.node, KeyEnum) = Nil
    \/ Field(d.node, KeyEnum).Kind = SequenceNode /\ Field(d.node, KeyEnum).Content = <<>>

Present(d) == ~StructurallyAbsent(d)

\* C8: extractEnums returns the empty list when the root has no components
\* mapping with a schemas mapping in it; under a schemas mapping it reads every
\* definition to the end, passes over those that are no mapping or have no enum
\* or an empty one, and returns the qualifying ones among the others.
C8_AbsenceIsNotAnError ==
    Finished =>
        IF ~HasSchemas(root)
        THEN result = <<>> /\ schemas = <<>>
        ELSE /\ i = Len(SchemasOf(root).Content)
             /\ Len(result) = Len(SelectSeq(SelectSeq(Definitions(root), Present), Qualifies))

\* A finished run over a root whose components entry is there but leads to no
\* schemas mapping.
C8_Witness ==
    /\ pc = "done"
    /\ ComponentsOf(root) # Nil
    /\ ComponentsOf(root).Content # <<>>
    /\ ~HasSchemas(root)

\* s without the white space around it.
Stripped(s) ==
    LET black == {k \in 1..Len(s) : ~IsSpace(s[k])}
    IN  IF black = {} THEN <<>> ELSE SubSeq(s, MinOf(black), MaxOf(black))

\* The annotation of an entry: its line comment without the white space around
\* it, one leading "#", and the white space around the rest.
Annotation(n) ==
    LET c == Stripped(n.LineComment)
    IN  Stripped(IF c # <<>> /\ c[1] = Ord["#"] THEN SubSeq(c, 2, Len(c)) ELSE c)

\* C9: the label of a member is the raw value, as it is, when its entry has no
\* annotation or an empty one, and the annotation otherwise; the key plays no
\* part.
C9_LabelFallback ==
    Finished =>
        LET q == Qualifying(root)
        IN  /\ Len(result) = Len(q)
            /\ \A k \in 1..Len(q) :
                  LET entries == ScalarEntries(q[k])
                  IN  /\ Len(result[k].Items) = Len(entries)
                      /\ \A m \in 1..Len(entries) :
                            LET text == Annotation(entries[m])
                            IN  result[k].Items[m].Label =
                                  IF text = <<>> THEN entries[m].Value ELSE text

\* A finished enum whose first member has its annotation as label and whose
\* second member, suffixed after a collision, has a comment that strips to
\* nothing and so its untrimmed raw value as label.
C9_Witness ==
    /\ pc = "done"
    /\ Len(result) = 1
    /\ Len(result[1].Items) = 2
    /\ LET its == result[1].Items
           n   == ScalarEntries(Qualifying(root)[1])[2]
       IN  /\ its[1].Label # its[1].Value
           /\ its[2].Key # BaseKey(its[2])
           /\ n.LineComment # <<>>
           /\ its[2].Label = its[2].Value
           /\ TrimSpace(its[2].Value) # its[2].Value

\* The boolean true of YAML written as `true`.
IsLiteralTrue(n) == n.Kind = ScalarNode /\ n.Tag = "!!bool" /\ n.Value = Str(<<"t", "r", "u", "e">>)

\* C10: Deprecated is true only if the deprecated field of the definition is the
\* boolean scalar true; a string scalar of text "true" leaves it false.
C10_DeprecatedOnlyLiteralTrue ==
    Finished =>
        \A k \in 1..Len(result) :
            (Len(result) = Len(Qualifying(root)) /\ result[k].Deprecated)
                => IsLiteralTrue(Field(Qualifying(root)[k].node, KeyDeprecated))

=============================================================================
